---------------------------- MODULE Spec2Model ----------------------------
(***************************************************************************)
(* Kinematics core of SScanSS-2: quaternion / pose algebra, Link,          *)
(* SerialManipulator and numeric_inverse_kinematics.                       *)
(*                                                                         *)
(* Numbers are exact integers.  A revolute offset counts half turns (the   *)
(* angle is offset * pi), so cos(angle/2) and sin(angle/2) are 0, 1 or -1  *)
(* and every quaternion, vector and matrix the code computes on these      *)
(* inputs has integer entries.  A prismatic offset is a plain number.       *)
(* Lengths (axes, points) are counted in units of 0.000005, so that the    *)
(* shortest axis the Link constructor accepts, 0.00001, is 2 units long    *)
(* and an axis that is too short without being zero can be written.        *)
(* Python indices are kept 0-based in the arguments of the operations;     *)
(* the sequences of the model are 1-based (joint i is links[i + 1]).       *)
(***************************************************************************)
EXTENDS Integers, Sequences, FiniteSets, TLC

(***************************************************************************)
(* Bounds of the model.                                                    *)
(***************************************************************************)
\* offsets handed to move / fkine / set_points are drawn from 0..MaxOffset
MaxOffset == 1
\* cost evaluations the global search may make before its budget is spent
MaxTrials == 2

Offsets == 0..MaxOffset

(***************************************************************************)
(* Vector3 (sscanss.core.math.vector).                                     *)
(***************************************************************************)
VAdd(a, b) == <<a[1] + b[1], a[2] + b[2], a[3] + b[3]>>

VSub(a, b) == <<a[1] - b[1], a[2] - b[2], a[3] - b[3]>>

VScale(a, s) == <<a[1] * s, a[2] * s, a[3] * s>>

VDot(a, b) == a[1] * b[1] + a[2] * b[2] + a[3] * b[3]

VCross(a, b) ==
    <<a[2] * b[3] - a[3] * b[2], a[3] * b[1] - a[1] * b[3], a[1] * b[2] - a[2] * b[1]>>

\* exact square root; defined on the perfect squares only
Sqrt(n) == CHOOSE r \in 0..n : r * r = n

VLength(a) == Sqrt(VDot(a, a))

VNormalized(a) ==
    LET len == VLength(a)
    IN  IF len = 0 THEN a ELSE <<a[1] \div len, a[2] \div len, a[3] \div len>>

(***************************************************************************)
(* Matrix44 / Matrix33 (sscanss.core.math.matrix): tuples of rows.         *)
(***************************************************************************)
Identity44 == <<<<1, 0, 0, 0>>, <<0, 1, 0, 0>>, <<0, 0, 1, 0>>, <<0, 0, 0, 1>>>>

MatMul(a, b) ==
    [r \in 1..4 |-> [c \in 1..4 |->
        a[r][1] * b[1][c] + a[r][2] * b[2][c] + a[r][3] * b[3][c] + a[r][4] * b[4][c]]]

\* m[0:3, 0:3] @ v + m[0:3, 3]
MatPoint(m, v) ==
    [r \in 1..3 |-> m[r][1] * v[1] + m[r][2] * v[2] + m[r][3] * v[3] + m[r][4]]

\* m[0:3, 0:3] @ v
MatDir(m, v) == [r \in 1..3 |-> m[r][1] * v[1] + m[r][2] * v[2] + m[r][3] * v[3]]

(***************************************************************************)
(* Quaternion (sscanss.core.math.quaternion).                              *)
(***************************************************************************)
Quaternion(w, x, y, z) == [w |-> w, x |-> x, y |-> y, z |-> z]

QIdentity == Quaternion(1, 0, 0, 0)

QAxis(q) == <<q.x, q.y, q.z>>

conjugate(q) == Quaternion(q.w, -q.x, -q.y, -q.z)

normalize(q) ==
    LET length == Sqrt(q.x * q.x + q.y * q.y + q.z * q.z + q.w * q.w)
    IN  IF length # 0
        THEN Quaternion(q.w \div length, q.x \div length, q.y \div length, q.z \div length)
        ELSE Quaternion(0, 0, 0, 0)

\* an inverse that forgets to conjugate
inverseWithoutConjugate(q) == normalize(q)

inverse(q) == normalize(conjugate(q))

\* Quaternion.__mul__
QMul(a, b) ==
    LET v1 == QAxis(a)
        v2 == QAxis(b)
        w  == a.w * b.w - VDot(v1, v2)
        v  == VAdd(VAdd(VScale(v2, a.w), VScale(v1, b.w)), VCross(v1, v2))
    IN  Quaternion(w, v[1], v[2], v[3])

rotate(q, point) ==
    LET p == Quaternion(0, point[1], point[2], point[3])
        q_inv == inverse(q)
    IN  QAxis(QMul(QMul(q, p), q_inv))

\* cos and sin of k quarter turns
CosQuarter(k) == CASE k % 4 = 0 -> 1 [] k % 4 = 1 -> 0 [] k % 4 = 2 -> -1 [] OTHER -> 0

SinQuarter(k) == CASE k % 4 = 0 -> 0 [] k % 4 = 1 -> 1 [] k % 4 = 2 -> 0 [] OTHER -> -1

\* angle is in half turns, so angle / 2 is `angle` quarter turns
fromAxisAngle(axis, angle) ==
    LET w == CosQuarter(angle)
        v == VScale(VNormalized(axis), SinQuarter(angle))
    IN  Quaternion(w, v[1], v[2], v[3])

QToMatrix(q) ==
    LET twoxx == 2 * q.x * q.x
        twoyy == 2 * q.y * q.y
        twozz == 2 * q.z * q.z
        twowx == 2 * q.w * q.x
        twowy == 2 * q.w * q.y
        twowz == 2 * q.w * q.z
        twoxy == 2 * q.x * q.y
        twoxz == 2 * q.x * q.z
        twoyz == 2 * q.y * q.z
    IN  <<<<1 - twoyy - twozz, twoxy - twowz, twoxz + twowy>>,
          <<twoxy + twowz, 1 - twoxx - twozz, twoyz - twowx>>,
          <<twoxz - twowy, twoyz + twowx, 1 - twoxx - twoyy>>>>

\* Quaternion.fromMatrix as if the trace branch were the only one
FromMatrixTermsTraceOnly(matrix) ==
    [branch |-> 4,
     t |-> 1 + matrix[1][1] + matrix[2][2] + matrix[3][3],
     q |-> <<1 + matrix[1][1] + matrix[2][2] + matrix[3][3],
             matrix[3][2] - matrix[2][3],
             matrix[1][3] - matrix[3][1],
             matrix[2][1] - matrix[1][2]>>]

\* The branch Quaternion.fromMatrix takes, with its t and its list q.  m<r><c>
\* is the entry of row r and column c.  eps = 1e-7 lies strictly between 0 and
\* 1 and the entries here are whole numbers, so m33 < eps is m33 <= 0.
FromMatrixTerms(matrix) ==
    IF matrix[3][3] <= 0
    THEN IF matrix[1][1] > matrix[2][2]
         THEN [branch |-> 1,
               t |-> 1 + matrix[1][1] - matrix[2][2] - matrix[3][3],
               q |-> <<matrix[3][2] - matrix[2][3],
                       1 + matrix[1][1] - matrix[2][2] - matrix[3][3],
                       matrix[1][2] + matrix[2][1],
                       matrix[1][3] + matrix[3][1]>>]
         ELSE [branch |-> 2,
               t |-> 1 - matrix[1][1] + matrix[2][2] - matrix[3][3],
               q |-> <<matrix[1][3] - matrix[3][1],
                       matrix[1][2] + matrix[2][1],
                       1 - matrix[1][1] + matrix[2][2] - matrix[3][3],
                       matrix[2][3] + matrix[3][2]>>]
    ELSE IF matrix[1][1] < -matrix[2][2]
         THEN [branch |-> 3,
               t |-> 1 - matrix[1][1] - matrix[2][2] + matrix[3][3],
               q |-> <<matrix[2][1] - matrix[1][2],
                       matrix[1][3] + matrix[3][1],
                       matrix[2][3] + matrix[3][2],
                       1 - matrix[1][1] - matrix[2][2] + matrix[3][3]>>]
         ELSE [branch |-> 4,
               t |-> 1 + matrix[1][1] + matrix[2][2] + matrix[3][3],
               q |-> <<1 + matrix[1][1] + matrix[2][2] + matrix[3][3],
                       matrix[3][2] - matrix[2][3],
                       matrix[1][3] - matrix[3][1],
                       matrix[2][1] - matrix[1][2]>>]

\* what the conversion yields when t has no positive square root
NoQuaternion == [raised |-> "math domain error"]

\* q = Vector4(q) * 0.5 / math.sqrt(t); Quaternion(*q)
QFromMatrix(matrix) ==
    LET r == FromMatrixTerms(matrix)
    IN  IF r.t <= 0
        THEN NoQuaternion
        ELSE Quaternion(r.q[1] \div (2 * Sqrt(r.t)), r.q[2] \div (2 * Sqrt(r.t)),
                        r.q[3] \div (2 * Sqrt(r.t)), r.q[4] \div (2 * Sqrt(r.t)))

(***************************************************************************)
(* QuaternionVectorPair.                                                   *)
(***************************************************************************)
QuaternionVectorPair(q, v) == [quaternion |-> q, vector |-> v]

PairIdentity == QuaternionVectorPair(QIdentity, <<0, 0, 0>>)

\* a composition that adds the translations before it rotates
PairMulTranslateFirst(a, b) ==
    QuaternionVectorPair(QMul(a.quaternion, b.quaternion),
                         rotate(a.quaternion, VAdd(b.vector, a.vector)))

\* QuaternionVectorPair.__mul__ (and __imul__, which stores its result in self)
PairMul(a, b) ==
    QuaternionVectorPair(QMul(a.quaternion, b.quaternion),
                         VAdd(rotate(a.quaternion, b.vector), a.vector))

\* An operand of * as Python sees it: a value and its class.
Operand(type, value) == [type |-> type, value |-> value]

\* a composition that lets an operand of another class through
PairMulUnchecked(self, other) ==
    IF other.type # "QuaternionVectorPair"
    THEN [raised |-> "none", value |-> self]
    ELSE [raised |-> "none", value |-> PairMul(self, other.value)]

\* QuaternionVectorPair.__mul__ with its isinstance test: the exception raised,
\* or the product
PairMulChecked(self, other) ==
    IF other.type # "QuaternionVectorPair"
    THEN [raised |-> "ValueError"]
    ELSE [raised |-> "none", value |-> PairMul(self, other.value)]

\* QuaternionVectorPair.__imul__: the exception raised and self afterwards
PairIMul(self, other) ==
    LET temp == PairMulChecked(self, other)
    IN  IF temp.raised # "none"
        THEN [raised |-> temp.raised, self |-> self]
        ELSE [raised |-> "none", self |-> temp.value, value |-> temp.value]

PairToMatrix(p) ==
    LET r == QToMatrix(p.quaternion)
    IN  <<<<r[1][1], r[1][2], r[1][3], p.vector[1]>>,
          <<r[2][1], r[2][2], r[2][3], p.vector[2]>>,
          <<r[3][1], r[3][2], r[3][3], p.vector[3]>>,
          <<0, 0, 0, 1>>>>

\* QuaternionVectorPair.fromMatrix
PairFromMatrix(matrix) ==
    QuaternionVectorPair(QFromMatrix(matrix), <<matrix[1][4], matrix[2][4], matrix[3][4]>>)

(***************************************************************************)
(* Link (robotics.py).  mesh and name are opaque attachments and are not   *)
(* modelled.  An absent limit (None) is the empty tuple, a limit v is <<v>>.*)
(***************************************************************************)
\* 0.00001, the length below which the constructor rejects an axis
AxisEps == 2

Revolute == "Revolute"

Prismatic == "Prismatic"

\* Link.move without the test of the lock
LinkMoveUnlocked(self, offset, ignore_locks, setpoint) ==
    LET moved == [self EXCEPT !.offset = offset,
                              !.set_point = IF setpoint THEN offset ELSE @]
    IN  IF self.type = Revolute
        THEN LET quat == fromAxisAngle(self.joint_axis, offset)
             IN  [moved EXCEPT !.quaternion = quat,
                               !.vector = rotate(quat, self.home)]
        ELSE [moved EXCEPT !.vector = VAdd(self.home, VScale(self.joint_axis, offset))]

\* a move of a revolute joint that rotates the home point by the rotation the
\* joint had before
LinkMoveStalePose(self, offset, ignore_locks, setpoint) ==
    IF self.locked /\ ~ignore_locks
    THEN self
    ELSE LET moved == [self EXCEPT !.offset = offset,
                                   !.set_point = IF setpoint THEN offset ELSE @]
         IN  IF self.type = Revolute
             THEN [moved EXCEPT !.quaternion = fromAxisAngle(self.joint_axis, offset),
                                !.vector = rotate(self.quaternion, self.home)]
             ELSE [moved EXCEPT !.vector = VAdd(self.home, VScale(self.joint_axis, offset))]

\* a move that keeps the offset within the limits unless ignore_limits is set
LinkMoveClamping(self, offset, ignore_locks, setpoint) ==
    LET bounded ==
            IF self.ignore_limits THEN offset
            ELSE IF self.upper_limit # <<>> /\ offset > self.upper_limit[1]
                 THEN self.upper_limit[1]
                 ELSE IF self.lower_limit # <<>> /\ offset < self.lower_limit[1]
                      THEN self.lower_limit[1]
                      ELSE offset
    IN  IF self.locked /\ ~ignore_locks THEN self
        ELSE LinkMoveUnlocked(self, bounded, ignore_locks, setpoint)

\* Link.move
LinkMove(self, offset, ignore_locks, setpoint) ==
    IF self.locked /\ ~ignore_locks
    THEN self
    ELSE LET moved == [self EXCEPT !.offset = offset,
                                   !.set_point = IF setpoint THEN offset ELSE @]
         IN  IF self.type = Revolute
             THEN LET quat == fromAxisAngle(self.joint_axis, offset)
                  IN  [moved EXCEPT !.quaternion = quat,
                                    !.vector = rotate(quat, self.home)]
             ELSE [moved EXCEPT !.vector = VAdd(self.home, VScale(self.joint_axis, offset))]

\* Link.reset
LinkReset(self) == LinkMove(self, self.default_offset, TRUE, TRUE)

\* the joint the constructor builds once the axis is accepted
NewJoint(axis, point, joint_type, default_offset, upper_limit, lower_limit) ==
    LinkReset([joint_axis |-> axis,
               quaternion |-> fromAxisAngle(axis, 0),
               vector |-> point,
               home |-> point,
               type |-> joint_type,
               lower_limit |-> lower_limit,
               upper_limit |-> upper_limit,
               default_offset |-> default_offset,
               set_point |-> default_offset,
               offset |-> default_offset,
               locked |-> FALSE,
               ignore_limits |-> FALSE])

\* Link.__init__ rejecting only the exact zero vector
LinkInitZeroOnly(axis, point, joint_type, default_offset, upper_limit, lower_limit) ==
    IF VLength(axis) = 0
    THEN [exc |-> "ValueError", link |-> <<>>]
    ELSE [exc |-> "none",
          link |-> <<NewJoint(axis, point, joint_type, default_offset, upper_limit,
                              lower_limit)>>]

\* Link.__init__: the new joint in a one-element tuple, or the exception raised.
\* offset has no value before the reset() that ends the constructor; it is
\* written there with ignore_locks = True, so its initial value is never read.
LinkInit(axis, point, joint_type, default_offset, upper_limit, lower_limit) ==
    IF VLength(axis) < AxisEps
    THEN [exc |-> "ValueError", link |-> <<>>]
    ELSE [exc |-> "none",
          link |-> <<NewJoint(axis, point, joint_type, default_offset, upper_limit,
                              lower_limit)>>]

\* Link.quaterionVectorPair
quaterionVectorPair(self) == QuaternionVectorPair(self.quaternion, self.vector)

(***************************************************************************)
(* SerialManipulator (robotics.py) as functions of the chain's fields.     *)
(***************************************************************************)
\* Python's None for an optional number: the empty tuple; a number v is <<v>>
None == <<>>

numberOfLinks(ls) == Len(ls)

\* the loop of fkine moving every visited joint as if ignore_locks were set
RECURSIVE FkineLoopIgnoringLocks(_, _, _, _, _, _, _)
FkineLoopIgnoringLocks(ls, q, i, end, ignore_locks, setpoint, qs) ==
    IF i >= end
    THEN [links |-> ls, qs |-> qs]
    ELSE LET moved == LinkMove(ls[i + 1], q[i + 1], TRUE, setpoint)
         IN  FkineLoopIgnoringLocks([ls EXCEPT ![i + 1] = moved], q, i + 1, end, ignore_locks,
                                    setpoint, PairMul(qs, quaterionVectorPair(moved)))

\* the loop of fkine from joint i (0-based) up to, not including, end:
\* each visited joint is moved, then its pose is folded into qs
RECURSIVE FkineLoop(_, _, _, _, _, _, _)
FkineLoop(ls, q, i, end, ignore_locks, setpoint, qs) ==
    IF i >= end
    THEN [links |-> ls, qs |-> qs]
    ELSE LET moved == LinkMove(ls[i + 1], q[i + 1], ignore_locks, setpoint)
         IN  FkineLoop([ls EXCEPT ![i + 1] = moved], q, i + 1, end, ignore_locks, setpoint,
                       PairMul(qs, quaterionVectorPair(moved)))

\* fkine taking the base whenever include_base is set, whatever the start
fkineBaseAlways(ls, b, t, q, start_index, end_index, include_base, ignore_locks, setpoint) ==
    LET link_count == numberOfLinks(ls)
        start == IF start_index < 0 THEN 0 ELSE start_index
        end == IF end_index = None \/ end_index[1] > link_count
               THEN link_count ELSE end_index[1]
        base_ == IF include_base THEN b ELSE Identity44
        tool_ == IF end = link_count THEN t ELSE Identity44
        done == FkineLoop(ls, q, start, end, ignore_locks, setpoint, PairIdentity)
    IN  [links |-> done.links,
         matrix |-> MatMul(MatMul(base_, PairToMatrix(done.qs)), tool_)]

\* fkine taking the tool wherever the range ends
fkineToolAlways(ls, b, t, q, start_index, end_index, include_base, ignore_locks, setpoint) ==
    LET link_count == numberOfLinks(ls)
        start == IF start_index < 0 THEN 0 ELSE start_index
        end == IF end_index = None \/ end_index[1] > link_count
               THEN link_count ELSE end_index[1]
        base_ == IF include_base /\ start = 0 THEN b ELSE Identity44
        done == FkineLoop(ls, q, start, end, ignore_locks, setpoint, PairIdentity)
    IN  [links |-> done.links,
         matrix |-> MatMul(MatMul(base_, PairToMatrix(done.qs)), t)]

\* SerialManipulator.fkine: the joints after the call and the matrix returned
fkine(ls, b, t, q, start_index, end_index, include_base, ignore_locks, setpoint) ==
    LET link_count == numberOfLinks(ls)
        start == IF start_index < 0 THEN 0 ELSE start_index
        end == IF end_index = None \/ end_index[1] > link_count
               THEN link_count ELSE end_index[1]
        base_ == IF include_base /\ start = 0 THEN b ELSE Identity44
        tool_ == IF end = link_count THEN t ELSE Identity44
        done == FkineLoop(ls, q, start, end, ignore_locks, setpoint, PairIdentity)
    IN  [links |-> done.links,
         matrix |-> MatMul(MatMul(base_, PairToMatrix(done.qs)), tool_)]

\* SerialManipulator.resetOffsets
\* resetOffsets going through move with the locks respected
resetOffsetsHonouringLocks(ls) ==
    [i \in 1..Len(ls) |-> LinkMove(ls[i], ls[i].default_offset, FALSE, TRUE)]

resetOffsets(ls) == [i \in 1..Len(ls) |-> LinkReset(ls[i])]

\* reset going through move with the locks respected
resetKeepingLocks(ls) ==
    [i \in 1..Len(ls) |->
        [LinkMove(ls[i], ls[i].default_offset, FALSE, TRUE) EXCEPT !.locked = FALSE,
                                                                  !.ignore_limits = FALSE]]

\* SerialManipulator.reset: the joints after the call (base becomes default_base)
reset(ls) ==
    [i \in 1..Len(ls) |-> [LinkReset(ls[i]) EXCEPT !.locked = FALSE,
                                                   !.ignore_limits = FALSE]]

\* a set_points setter that passes over the locked joints
setSetPointsUnlockedOnly(ls, q) ==
    [i \in 1..Len(ls) |->
        IF i <= Len(q) /\ ~ls[i].locked THEN [ls[i] EXCEPT !.set_point = q[i]] ELSE ls[i]]

\* the set_points setter: zip(q, links) stops at the shorter of the two
setSetPoints(ls, q) ==
    [i \in 1..Len(ls) |-> IF i <= Len(q) THEN [ls[i] EXCEPT !.set_point = q[i]] ELSE ls[i]]

configuration(ls) == [i \in 1..Len(ls) |-> ls[i].offset]

set_points(ls) == [i \in 1..Len(ls) |-> ls[i].set_point]

\* SerialManipulator.pose
RECURSIVE PoseLoop(_, _, _)
PoseLoop(ls, i, qs) ==
    IF i > Len(ls) THEN qs ELSE PoseLoop(ls, i + 1, PairMul(qs, quaterionVectorPair(ls[i])))

pose(ls, b, t) == MatMul(MatMul(b, PairToMatrix(PoseLoop(ls, 1, PairIdentity))), t)

\* the pose getter folding the joints' poses into the first joint's own pair
poseFoldingIntoFirstJoint(ls, b, t) ==
    LET qs == PoseLoop(ls, 1, PairIdentity)
    IN  [links |-> IF Len(ls) = 0 THEN ls
                   ELSE [ls EXCEPT ![1].quaternion = qs.quaternion, ![1].vector = qs.vector],
         matrix |-> pose(ls, b, t)]

\* reading chain.pose: the joints after the read and the matrix returned.  qs is
\* a fresh pair (QuaternionVectorPair.identity()), each joint's
\* quaterionVectorPair is a new pair, and __imul__ rebinds the fields of qs only
poseRead(ls, b, t) == [links |-> ls, matrix |-> pose(ls, b, t)]

(***************************************************************************)
(* The chain under study: a revolute joint about z followed by a prismatic *)
(* joint along y, with a base and a tool that do not commute with them.    *)
(***************************************************************************)
Geometry ==
    <<[axis |-> <<0, 0, 2>>, point |-> <<1, 0, 0>>, type |-> Revolute, default_offset |-> 0],
      [axis |-> <<0, 2, 0>>, point |-> <<0, 0, 1>>, type |-> Prismatic, default_offset |-> 1]>>

InitLinks ==
    [i \in 1..Len(Geometry) |->
        LinkInit(Geometry[i].axis, Geometry[i].point, Geometry[i].type,
                 Geometry[i].default_offset, None, None).link[1]]

\* half turn about x, then up by 2
InitBase == <<<<1, 0, 0, 0>>, <<0, -1, 0, 0>>, <<0, 0, -1, 2>>, <<0, 0, 0, 1>>>>

\* half turn about z, then along y by 1
InitTool == <<<<-1, 0, 0, 0>>, <<0, -1, 0, 1>>, <<0, 0, 1, 0>>, <<0, 0, 0, 1>>>>

\* a base a caller may assign later
OtherBase == <<<<1, 0, 0, 3>>, <<0, 1, 0, 0>>, <<0, 0, 1, 0>>, <<0, 0, 0, 1>>>>

JointIndices == 0..(Len(Geometry) - 1)

\* configuration vectors with one entry per joint
Configs == [1..Len(Geometry) -> Offsets]

(***************************************************************************)
(* State.  links, base, default_base and tool are the SerialManipulator's  *)
(* fields.  last records the most recent call (its name, its arguments and *)
(* the chain as it was when the call was made) and ret what it returned or *)
(* raised; Return is the caller taking the result, after which the next    *)
(* call can be made.                                                       *)
(***************************************************************************)
VARIABLES links, base, default_base, tool, last, ret,
          pc, target_pose, tolerance, conf, state, q0, best_result, x,
          links0, nfev, last_q, last_err, early, min_err, res_x, res_fun, path,
          step, timeline, delivered, seq_last, calc

chainVars == <<links, base, default_base, tool>>

ikVars == <<pc, target_pose, tolerance, conf, state, q0, best_result, x,
            links0, nfev, last_q, last_err, early, min_err, res_x, res_fun, path>>

\* a Sequence: its step, its QTimeLine, the frame indices handed to animate
\* since the last start, and the last call made on it
seqVars == <<step, timeline, delivered, seq_last>>

\* seqVars and calc, the last application of a function of the library
otherVars == <<step, timeline, delivered, seq_last, calc>>

vars == <<links, base, default_base, tool, last, ret,
          pc, target_pose, tolerance, conf, state, q0, best_result, x,
          links0, nfev, last_q, last_err, early, min_err, res_x, res_fun, path,
          step, timeline, delivered, seq_last, calc>>

NoCall == [op |-> "none"]

NoValue == [kind |-> "none"]

Pre == [links |-> links, base |-> base]

Idle == last.op = "none" /\ pc = "idle"

\* no Sequence has been constructed yet
NoTimeline ==
    [state |-> "Unconstructed", timer |-> FALSE, currentTime |-> 0, currentLoopCount |-> 0,
     startFrame |-> 0, endFrame |-> 0]

\* the Sequence as it is when a call is made on it
SeqPre == [timeline |-> timeline, delivered |-> delivered]

(***************************************************************************)
(* Operations on a chain and on joints (Spec, FkSpec).                     *)
(***************************************************************************)
\* links[i].move(offset, ignore_locks, setpoint)
Move(i, offset, ignore_locks, setpoint) ==
    /\ Idle
    /\ links' = [links EXCEPT ![i + 1] = LinkMove(@, offset, ignore_locks, setpoint)]
    /\ last' = [op |-> "move", i |-> i, offset |-> offset, ignore_locks |-> ignore_locks,
                setpoint |-> setpoint, pre |-> Pre]
    /\ ret' = NoValue
    /\ UNCHANGED <<base, default_base, tool, ikVars, otherVars>>

\* chain.fkine(q, start_index, end_index, include_base, ignore_locks, setpoint)
Fkine(q, start_index, end_index, include_base, ignore_locks, setpoint) ==
    /\ Idle
    /\ LET r == fkine(links, base, tool, q, start_index, end_index, include_base,
                      ignore_locks, setpoint)
       IN  /\ links' = r.links
           /\ ret' = [kind |-> "matrix", matrix |-> r.matrix]
    /\ last' = [op |-> "fkine", q |-> q, start_index |-> start_index,
                end_index |-> end_index, include_base |-> include_base,
                ignore_locks |-> ignore_locks, setpoint |-> setpoint, pre |-> Pre]
    /\ UNCHANGED <<base, default_base, tool, ikVars, otherVars>>

\* chain.resetOffsets()
ResetOffsets ==
    /\ Idle
    /\ links' = resetOffsets(links)
    /\ last' = [op |-> "resetOffsets", pre |-> Pre]
    /\ ret' = NoValue
    /\ UNCHANGED <<base, default_base, tool, ikVars, otherVars>>

\* chain.reset()
Reset ==
    /\ Idle
    /\ base' = default_base
    /\ links' = reset(links)
    /\ last' = [op |-> "reset", pre |-> Pre]
    /\ ret' = NoValue
    /\ UNCHANGED <<default_base, tool, ikVars, otherVars>>

\* chain.set_points = q
SetSetPoints(q) ==
    /\ Idle
    /\ links' = setSetPoints(links, q)
    /\ last' = [op |-> "set_points", q |-> q, pre |-> Pre]
    /\ ret' = NoValue
    /\ UNCHANGED <<base, default_base, tool, ikVars, otherVars>>

\* chain.links[i].locked = value
SetLocked(i, value) ==
    /\ Idle
    /\ links' = [links EXCEPT ![i + 1].locked = value]
    /\ last' = [op |-> "locked", i |-> i, value |-> value, pre |-> Pre]
    /\ ret' = NoValue
    /\ UNCHANGED <<base, default_base, tool, ikVars, otherVars>>

\* chain.links[i].ignore_limits = value
SetIgnoreLimits(i, value) ==
    /\ Idle
    /\ links' = [links EXCEPT ![i + 1].ignore_limits = value]
    /\ last' = [op |-> "ignore_limits", i |-> i, value |-> value, pre |-> Pre]
    /\ ret' = NoValue
    /\ UNCHANGED <<base, default_base, tool, ikVars, otherVars>>

\* chain.base = matrix
SetBase(matrix) ==
    /\ Idle
    /\ base' = matrix
    /\ last' = [op |-> "base", matrix |-> matrix, pre |-> Pre]
    /\ ret' = NoValue
    /\ UNCHANGED <<links, default_base, tool, ikVars, otherVars>>

\* Link(axis, point, joint_type, default_offset, upper_limit, lower_limit)
NewLink(axis, point, joint_type, default_offset, upper_limit, lower_limit) ==
    /\ Idle
    /\ LET r == LinkInit(axis, point, joint_type, default_offset, upper_limit, lower_limit)
       IN  ret' = [kind |-> "Link", exc |-> r.exc, link |-> r.link]
    /\ last' = [op |-> "Link", axis |-> axis, point |-> point, joint_type |-> joint_type,
                default_offset |-> default_offset, upper_limit |-> upper_limit,
                lower_limit |-> lower_limit, pre |-> Pre]
    /\ UNCHANGED <<chainVars, ikVars, otherVars>>

\* chain.pose, read once or twice in a row
ReadPose ==
    /\ pc = "idle"
    /\ last.op \in {"none", "pose"}
    /\ last.op = "pose" => ~last.again
    /\ LET r == poseRead(links, base, tool)
       IN  /\ links' = r.links
           /\ ret' = [kind |-> "matrix", matrix |-> r.matrix]
    /\ last' = [op |-> "pose", again |-> (last.op = "pose"),
                prev |-> IF last.op = "pose" THEN ret.matrix ELSE Identity44, pre |-> Pre]
    /\ UNCHANGED <<base, default_base, tool, ikVars, otherVars>>

\* chain.configuration
ReadConfiguration ==
    /\ Idle
    /\ ret' = [kind |-> "list", list |-> configuration(links)]
    /\ last' = [op |-> "configuration", pre |-> Pre]
    /\ UNCHANGED <<chainVars, ikVars, otherVars>>

\* chain.set_points
ReadSetPoints ==
    /\ Idle
    /\ ret' = [kind |-> "list", list |-> set_points(links)]
    /\ last' = [op |-> "set_points.get", pre |-> Pre]
    /\ UNCHANGED <<chainVars, ikVars, otherVars>>

\* the caller has taken the result of the last call
Return ==
    /\ last.op # "none"
    /\ last' = NoCall
    /\ ret' = NoValue
    /\ UNCHANGED <<chainVars, ikVars, otherVars>>

\* axes a caller may hand to the constructor: long enough, too short, zero
Axes == {<<0, 0, 2>>, <<0, 3, 0>>, <<0, 0, 1>>, <<0, 0, 0>>}

Limits == {<<None, None>>, <<<<MaxOffset>>, <<0>>>>}

\* everything but the joints of the chain
InitRest ==
    /\ base = InitBase
    /\ default_base = InitBase
    /\ tool = InitTool
    /\ last = NoCall
    /\ ret = NoValue
    /\ pc = "idle"
    /\ target_pose = <<0, 0, 0, 0, 0, 0>>
    /\ tolerance = 0
    /\ conf = <<>>
    /\ state = <<>>
    /\ q0 = <<>>
    /\ best_result = 0
    /\ x = <<>>
    /\ links0 = <<>>
    /\ nfev = 0
    /\ last_q = <<>>
    /\ last_err = 0
    /\ early = FALSE
    /\ min_err = 0
    /\ res_x = <<>>
    /\ res_fun = 0
    /\ path = "none"
    /\ step = 0
    /\ timeline = NoTimeline
    /\ delivered = <<>>
    /\ seq_last = [op |-> "none", started |-> FALSE, pre |-> SeqPre]
    /\ calc = [fn |-> "none"]

Init ==
    /\ links = InitLinks
    /\ InitRest

Next ==
    \/ \E i \in JointIndices, offset \in Offsets, ignore_locks \in BOOLEAN, setpoint \in BOOLEAN :
          Move(i, offset, ignore_locks, setpoint)
    \/ \E q \in Configs, ignore_locks \in BOOLEAN, setpoint \in BOOLEAN :
          Fkine(q, 0, None, TRUE, ignore_locks, setpoint)
    \/ ResetOffsets
    \/ Reset
    \/ \E q \in Configs : SetSetPoints(q)
    \/ \E i \in JointIndices, value \in BOOLEAN : SetLocked(i, value)
    \/ \E i \in JointIndices, value \in BOOLEAN : SetIgnoreLimits(i, value)
    \/ SetBase(OtherBase)
    \/ ReadPose
    \/ ReadConfiguration
    \/ ReadSetPoints
    \/ \E axis \in Axes, joint_type \in {Revolute, Prismatic}, default_offset \in Offsets,
          lim \in Limits :
          NewLink(axis, <<1, 0, 0>>, joint_type, default_offset, lim[1], lim[2])
    \/ Return

Spec == Init /\ [][Next]_vars

(***************************************************************************)
(* Ranged forward kinematics (FkSpec): fkine with every combination of     *)
(* start_index, end_index, include_base and ignore_locks, setpoint at its  *)
(* default (True), on a chain whose joints get locked and unlocked.        *)
(***************************************************************************)
StartIndices == -1..(Len(Geometry) + 1)

EndIndices == {None} \cup {<<e>> : e \in -1..(Len(Geometry) + 1)}

FkNext ==
    \/ \E q \in Configs, start_index \in StartIndices, end_index \in EndIndices,
          include_base \in BOOLEAN, ignore_locks \in BOOLEAN :
          Fkine(q, start_index, end_index, include_base, ignore_locks, TRUE)
    \/ \E i \in JointIndices, value \in BOOLEAN : SetLocked(i, value)
    \/ Return

FkSpec == Init /\ [][FkNext]_vars

(***************************************************************************)
(* The effects of ranged forward kinematics on the joints (FkFrameSpec):   *)
(* fkine with every start_index, end_index, ignore_locks and setpoint,     *)
(* include_base at its default (True).                                     *)
(***************************************************************************)
FkFrameNext ==
    \/ \E q \in Configs, start_index \in StartIndices, end_index \in EndIndices,
          ignore_locks \in BOOLEAN, setpoint \in BOOLEAN :
          Fkine(q, start_index, end_index, TRUE, ignore_locks, setpoint)
    \/ \E i \in JointIndices, value \in BOOLEAN : SetLocked(i, value)
    \/ Return

FkFrameSpec == Init /\ [][FkFrameNext]_vars

(***************************************************************************)
(* Forward kinematics in two parts (FkSplitSpec): fkine over the whole     *)
(* chain, and fkine(q, 0, k) followed by fkine(q, k, n, include_base), on  *)
(* a chain whose joints get locked and unlocked.                           *)
(***************************************************************************)
SplitIndices == 1..(Len(Geometry) - 1)

\* first = chain.fkine(q, 0, k, ...); second = chain.fkine(q, k, n, include_base, ...),
\* with the matrix fkine(q) returns on the chain as it was before the two calls
FkineSplit(q, k, include_base, ignore_locks, setpoint) ==
    /\ Idle
    /\ LET first == fkine(links, base, tool, q, 0, <<k>>, TRUE, ignore_locks, setpoint)
       IN  /\ links' = fkine(first.links, base, tool, q, k, <<Len(links)>>, include_base,
                             ignore_locks, setpoint).links
           /\ ret' = [kind |-> "matrices",
                      first |-> first.matrix,
                      second |-> fkine(first.links, base, tool, q, k, <<Len(links)>>,
                                       include_base, ignore_locks, setpoint).matrix,
                      whole |-> fkine(links, base, tool, q, 0, None, TRUE, ignore_locks,
                                      setpoint).matrix]
    /\ last' = [op |-> "fkine, fkine", q |-> q, k |-> k, include_base |-> include_base,
                ignore_locks |-> ignore_locks, setpoint |-> setpoint, pre |-> Pre]
    /\ UNCHANGED <<base, default_base, tool, ikVars, otherVars>>

FkSplitNext ==
    \/ \E q \in Configs, ignore_locks \in BOOLEAN, setpoint \in BOOLEAN :
          Fkine(q, 0, None, TRUE, ignore_locks, setpoint)
    \/ \E q \in Configs, k \in SplitIndices, include_base \in BOOLEAN,
          ignore_locks \in BOOLEAN, setpoint \in BOOLEAN :
          FkineSplit(q, k, include_base, ignore_locks, setpoint)
    \/ \E i \in JointIndices, value \in BOOLEAN : SetLocked(i, value)
    \/ Return

FkSplitSpec == Init /\ [][FkSplitNext]_vars

(***************************************************************************)
(* Assigning set_points (SetPointSpec): vectors shorter than, as long as   *)
(* and longer than the chain, on joints that are moved and locked.         *)
(***************************************************************************)
AnyLengthConfigs == UNION {[1..n -> Offsets] : n \in 0..(Len(Geometry) + 1)}

SetPointNext ==
    \/ \E q \in AnyLengthConfigs : SetSetPoints(q)
    \/ \E i \in JointIndices, offset \in Offsets, setpoint \in BOOLEAN :
          Move(i, offset, FALSE, setpoint)
    \/ \E i \in JointIndices, value \in BOOLEAN : SetLocked(i, value)
    \/ ReadConfiguration
    \/ ReadSetPoints
    \/ Return

SetPointSpec == Init /\ [][SetPointNext]_vars

(***************************************************************************)
(* Moves beyond the joint limits (LimitSpec): the two joints constructed   *)
(* with lower_limit 0 and upper_limit MaxOffset, moved to offsets on both  *)
(* sides of that interval.                                                 *)
(***************************************************************************)
LimitedLinks ==
    [i \in 1..Len(Geometry) |->
        LinkInit(Geometry[i].axis, Geometry[i].point, Geometry[i].type,
                 Geometry[i].default_offset, <<MaxOffset>>, <<0>>).link[1]]

MoveOffsets == -1..(MaxOffset + 1)

LimitInit ==
    /\ links = LimitedLinks
    /\ InitRest

LimitNext ==
    \/ \E i \in JointIndices, offset \in MoveOffsets, ignore_locks \in BOOLEAN,
          setpoint \in BOOLEAN : Move(i, offset, ignore_locks, setpoint)
    \/ \E i \in JointIndices, value \in BOOLEAN : SetLocked(i, value)
    \/ \E i \in JointIndices, value \in BOOLEAN : SetIgnoreLimits(i, value)
    \/ Return

LimitSpec == LimitInit /\ [][LimitNext]_vars

(***************************************************************************)
(* Forward kinematics with indices beyond the chain (FkClampSpec): the     *)
(* two-joint chain and a chain constructed with no links (links = []),     *)
(* fkine with every start_index, end_index and include_base.               *)
(***************************************************************************)
ClampInit ==
    /\ links \in {<<>>, InitLinks}
    /\ InitRest

FkClampNext ==
    \/ \E q \in [1..Len(links) -> Offsets], start_index \in StartIndices,
          end_index \in EndIndices, include_base \in BOOLEAN, ignore_locks \in BOOLEAN :
          Fkine(q, start_index, end_index, include_base, ignore_locks, TRUE)
    \/ Return

FkClampSpec == ClampInit /\ [][FkClampNext]_vars

(***************************************************************************)
(* numeric_inverse_kinematics(ri, target_pose, current_pose, bounds, tol)  *)
(* (IKSpec).  ri is the chain above; the caller positions and locks joints *)
(* and then calls the solver once.  scipy's dual_annealing is outside the  *)
(* repository: it is a sequence of calls of the cost function opt, the     *)
(* first one at x0, ended either by an exception leaving opt or by the     *)
(* budget being spent, when it hands back the best point it accepted.  Its *)
(* Nelder-Mead local search is given no bounds (local_search_options names *)
(* only the method), so a trial may lie one step outside them; a point     *)
(* outside the bounds is never accepted as the result.                     *)
(***************************************************************************)
\* np.inf
Inf == -1

Less(a, b) == a # Inf /\ (b = Inf \/ a < b)

\* ri.tool_link: ri is taken to be the chain itself (fkine, links and
\* configuration are SerialManipulator's), with nothing mounted after its tool
tool_link == Identity44

\* the current_pose argument: a point and a direction in the tool's frame
current_pose == <<0, 0, 0, 1, 0, 0>>

\* the bounds argument: [lower, upper] for every joint of the chain
bounds == <<<<0, 1>>, <<0, 1>>>>

Head3(v) == <<v[1], v[2], v[3]>>

Tail3(v) == <<v[4], v[5], v[6]>>

\* number of True entries among the first i entries of a mask
Rank(mask, i) == Cardinality({j \in 1..i : mask[j]})

\* a[mask]
Gather(a, mask) ==
    [k \in 1..Rank(mask, Len(mask)) |->
        a[CHOOSE i \in 1..Len(mask) : mask[i] /\ Rank(mask, i) = k]]

\* a[mask] = q
Scatter(a, mask, q) ==
    [i \in 1..Len(a) |-> IF mask[i] THEN q[Rank(mask, i)] ELSE a[i]]

\* the pose error of the chain's end effector against target
PoseError(H, target) ==
    LET e1 == VSub(Head3(target), MatPoint(H, Head3(current_pose)))
        e2 == VSub(Tail3(target), MatDir(H, Tail3(current_pose)))
    IN  VDot(e1, e1) + VDot(e2, e2)

\* opt(q) that never raises StopOptimizingException
optNeverStops(ls, b, t, c, mask, q, best, target, tol2) ==
    LET conf1 == Scatter(c, mask, q)
        fk == fkine(ls, b, t, conf1, 0, None, TRUE, FALSE, TRUE)
        H == MatMul(fk.matrix, tool_link)
        err == PoseError(H, target)
    IN  [links |-> fk.links,
         conf |-> conf1,
         err |-> err,
         best_result |-> IF Less(err, best) THEN err ELSE best,
         raised |-> FALSE]

\* opt(q) running fkine with ignore_locks set
optIgnoringLocks(ls, b, t, c, mask, q, best, target, tol2) ==
    LET conf1 == Scatter(c, mask, q)
        fk == fkine(ls, b, t, conf1, 0, None, TRUE, TRUE, TRUE)
        H == MatMul(fk.matrix, tool_link)
        err == PoseError(H, target)
    IN  [links |-> fk.links,
         conf |-> conf1,
         err |-> err,
         best_result |-> IF Less(err, best) THEN err ELSE best,
         raised |-> err < tol2]

\* one call of the nested function opt(q): the joints and the nonlocals conf
\* and best_result after it, the cost, and whether it left by raising
\* StopOptimizingException
\* the cost evaluated on a copy of the chain, the chain itself left alone
optOnACopy(ls, b, t, c, mask, q, best, target, tol2) ==
    LET conf1 == Scatter(c, mask, q)
        fk == fkine(ls, b, t, conf1, 0, None, TRUE, FALSE, TRUE)
        H == MatMul(fk.matrix, tool_link)
        err == PoseError(H, target)
    IN  [links |-> ls,
         conf |-> conf1,
         err |-> err,
         best_result |-> IF Less(err, best) THEN err ELSE best,
         raised |-> err < tol2]

opt(ls, b, t, c, mask, q, best, target, tol2) ==
    LET conf1 == Scatter(c, mask, q)
        fk == fkine(ls, b, t, conf1, 0, None, TRUE, FALSE, TRUE)
        H == MatMul(fk.matrix, tool_link)
        err == PoseError(H, target)
    IN  [links |-> fk.links,
         conf |-> conf1,
         err |-> err,
         best_result |-> IF Less(err, best) THEN err ELSE best,
         raised |-> err < tol2]

\* the pose reached at configuration c, as a target_pose
TargetAt(c) ==
    LET H == MatMul(fkine(InitLinks, InitBase, InitTool, c, 0, None, TRUE, TRUE, TRUE).matrix,
                    tool_link)
    IN  MatPoint(H, Head3(current_pose)) \o MatDir(H, Tail3(current_pose))

\* one target inside the bounds, one that lies beyond them along the prismatic joint
Targets == {TargetAt(<<1, 1>>), TargetAt(<<0, 3>>)}

Tolerances == {1}

InBounds(q, bnds) == \A j \in 1..Len(q) : bnds[j][1] <= q[j] /\ q[j] <= bnds[j][2]

\* the points the search may try: inside the bounds, or one step above them
TrialPoints(bnds) ==
    {q \in [1..Len(bnds) -> 0..3] :
        \A j \in 1..Len(bnds) : bnds[j][1] <= q[j] /\ q[j] <= bnds[j][2] + 1}

\* the caller puts joint i at offset before the solve
Position(i, offset, setpoint) ==
    /\ pc = "idle"
    /\ links' = [links EXCEPT ![i + 1] = LinkMove(@, offset, FALSE, setpoint)]
    /\ UNCHANGED <<base, default_base, tool, last, ret, ikVars, otherVars>>

\* the caller locks joint i before the solve
LockJoint(i) ==
    /\ pc = "idle"
    /\ ~links[i + 1].locked
    /\ links' = [links EXCEPT ![i + 1].locked = TRUE]
    /\ UNCHANGED <<base, default_base, tool, last, ret, ikVars, otherVars>>

\* the call after its first cost evaluation r = opt(q0)
Called(target, tol2, state_, q0_, r) ==
    /\ target_pose' = target
    /\ tolerance' = tol2
    /\ state' = state_
    /\ q0' = q0_
    /\ links' = r.links
    /\ conf' = r.conf
    /\ links0' = links
    /\ nfev' = 1
    /\ last_q' = q0_
    /\ last_err' = r.err
    /\ early' = FALSE
    /\ min_err' = r.err
    /\ res_x' = <<>>
    /\ res_fun' = Inf
    /\ IF r.raised
       THEN \* the exception leaves opt(q0), which no try encloses
            /\ best_result' = r.best_result
            /\ pc' = "raised"
            /\ x' = <<>>
            /\ path' = "raised"
       ELSE /\ best_result' = r.err
            /\ IF r.err < tol2
               THEN pc' = "returned" /\ x' = q0_ /\ path' = "within"
               ELSE pc' = "search" /\ x' = <<>> /\ path' = "none"

\* the call, up to the start of the global search
Solve(target, tol2, conf_, state_) ==
    Called(target, tol2, state_, Gather(conf_, state_),
           opt(links, base, tool, conf_, state_, Gather(conf_, state_), Inf, target, tol2))

IKCall(target, tol) ==
    /\ pc = "idle"
    /\ \E i \in 1..Len(links) : ~links[i].locked
    /\ Solve(target, tol * tol, configuration(links),
             [i \in 1..Len(links) |-> ~links[i].locked])
    /\ UNCHANGED <<base, default_base, tool, last, ret, otherVars>>

\* the search with no except clause around dual_annealing
TriedUncaught(q, r) ==
    /\ links' = r.links
    /\ conf' = r.conf
    /\ best_result' = r.best_result
    /\ nfev' = nfev + 1
    /\ last_q' = q
    /\ last_err' = r.err
    /\ early' = (early \/ last_err < tolerance)
    /\ min_err' = IF r.err < min_err THEN r.err ELSE min_err
    /\ IF r.raised
       THEN /\ pc' = "raised"
            /\ path' = "raised"
            /\ UNCHANGED <<x, res_x, res_fun>>
       ELSE /\ IF InBounds(q, Gather(bounds, state)) /\ Less(r.err, res_fun)
               THEN res_x' = q /\ res_fun' = r.err
               ELSE UNCHANGED <<res_x, res_fun>>
            /\ UNCHANGED <<x, pc, path>>

\* the search after one more cost evaluation r = opt(q)
Tried(q, r) ==
    /\ links' = r.links
    /\ conf' = r.conf
    /\ best_result' = r.best_result
    /\ nfev' = nfev + 1
    /\ last_q' = q
    /\ last_err' = r.err
    /\ early' = (early \/ last_err < tolerance)
    /\ min_err' = IF r.err < min_err THEN r.err ELSE min_err
    /\ IF r.raised
       THEN \* except StopOptimizingException: x = conf
            /\ x' = r.conf
            /\ pc' = "returned"
            /\ path' = "stopped"
            /\ UNCHANGED <<res_x, res_fun>>
       ELSE /\ IF InBounds(q, Gather(bounds, state)) /\ Less(r.err, res_fun)
               THEN res_x' = q /\ res_fun' = r.err
               ELSE UNCHANGED <<res_x, res_fun>>
            /\ UNCHANGED <<x, pc, path>>

\* one cost evaluation made by dual_annealing
IKTrial(q) ==
    /\ pc = "search"
    /\ nfev - 1 < MaxTrials
    /\ nfev = 1 => q = q0
    /\ Tried(q, opt(links, base, tool, conf, state, q, best_result, target_pose, tolerance))
    /\ UNCHANGED <<base, default_base, tool, last, ret, target_pose, tolerance, state, q0,
                   links0, otherVars>>

\* dual_annealing returns with its budget spent: x = r.x
IKFinish ==
    /\ pc = "search"
    /\ nfev - 1 = MaxTrials
    /\ x' = res_x
    /\ pc' = "returned"
    /\ path' = "budget"
    /\ UNCHANGED <<chainVars, last, ret, target_pose, tolerance, conf, state, q0, best_result,
                   links0, nfev, last_q, last_err, early, min_err, res_x, res_fun,
                   otherVars>>

IKNext ==
    \/ \E i \in JointIndices : \E offset \in bounds[i + 1][1]..bounds[i + 1][2],
          setpoint \in BOOLEAN : Position(i, offset, setpoint)
    \/ \E i \in JointIndices : LockJoint(i)
    \/ \E target \in Targets, tol \in Tolerances : IKCall(target, tol)
    \/ \E q \in TrialPoints(Gather(bounds, state)) : IKTrial(q)
    \/ IKFinish

IKSpec == Init /\ [][IKNext]_vars

(***************************************************************************)
(* Sequence (robotics.py) on its QTimeLine (SeqSpec).  QTimeLine is Qt's:  *)
(* it keeps a current time in 0..duration, maps it to a frame of           *)
(* startFrame..endFrame by a monotone curve (here the straight line) and   *)
(* emits frameChanged(frame) when a change of time changes the frame; its  *)
(* loop count is the default, 1, and its direction Forward.  frameChanged  *)
(* is connected to Sequence.animate, which hands row `index` of the        *)
(* trajectory to the frames callback: delivered lists those indices.       *)
(***************************************************************************)
\* the duration argument, in units of the timer
Duration == 6

\* the largest step argument
MaxStep == 4

Steps == 1..MaxStep

\* QTimeLine.frameForTime
frameForTime(tl, msec) == tl.startFrame + ((tl.endFrame - tl.startFrame) * msec) \div Duration

\* QTimeLine.currentFrame
currentFrame(tl) == frameForTime(tl, tl.currentTime)

\* the timeline taking the time msecs (a timer event, or the end of
\* setCurrentTime and start): the timeline after it and the frames emitted
TimelineAdvance(tl, msecs) ==
    LET lastFrame == currentFrame(tl)
        loopCountNow == msecs \div Duration
        looping == loopCountNow # tl.currentLoopCount
        loops == IF looping THEN loopCountNow ELSE tl.currentLoopCount
        finished == loops >= 1
        time == IF finished THEN Duration ELSE msecs % Duration
        frame == frameForTime(tl, time)
        stops == finished /\ tl.state = "Running"
    IN  [timeline |-> [tl EXCEPT !.currentTime = time,
                                 !.currentLoopCount = IF finished THEN 0 ELSE loops,
                                 !.state = IF stops THEN "NotRunning" ELSE @,
                                 !.timer = IF stops THEN FALSE ELSE @],
         emitted |-> IF lastFrame = frame
                     THEN <<>>
                     ELSE (IF looping /\ ~finished /\ tl.endFrame # frame
                           THEN <<tl.endFrame>> ELSE <<>>) \o <<frame>>]

\* timeline.setCurrentTime(msec)
setCurrentTime(tl, msec) == TimelineAdvance([tl EXCEPT !.currentLoopCount = 0], msec)

\* timeline.stop()
TimelineStop(tl) == [tl EXCEPT !.state = "NotRunning", !.timer = FALSE]

\* a start that goes on from the current time (QTimeLine.resume) instead
TimelineResume(tl) ==
    IF tl.timer
    THEN [timeline |-> tl, emitted |-> <<>>]
    ELSE [timeline |-> [tl EXCEPT !.state = "Running", !.timer = TRUE], emitted |-> <<>>]

\* Sequence.start: timeline.start(), which does nothing when already running
\* and else runs the timer from time 0
SequenceStart(tl) ==
    IF tl.timer
    THEN [timeline |-> tl, emitted |-> <<>>]
    ELSE TimelineAdvance([tl EXCEPT !.currentLoopCount = 0, !.state = "Running",
                                    !.timer = TRUE], 0)

\* stop() that only stops the timeline
SequenceStopWhereItIs(tl) == [timeline |-> TimelineStop(tl), emitted |-> <<>>]

\* Sequence.stop
SequenceStop(tl) ==
    IF tl.currentTime < Duration
    THEN LET r == setCurrentTime(tl, Duration)
         IN  [timeline |-> TimelineStop(r.timeline), emitted |-> r.emitted]
    ELSE [timeline |-> TimelineStop(tl), emitted |-> <<>>]

\* Sequence.isRunning
isRunning == timeline.state = "Running"

\* Sequence(frames, start, stop, duration, s): animate is connected only after
\* the timeline was put at its end, so the constructor delivers no frame
NewSequence(s) ==
    /\ timeline.state = "Unconstructed"
    /\ step' = s
    /\ timeline' = setCurrentTime([NoTimeline EXCEPT !.state = "NotRunning",
                                                     !.endFrame = s - 1], Duration).timeline
    /\ delivered' = <<>>
    /\ seq_last' = [op |-> "new", started |-> FALSE, pre |-> SeqPre]
    /\ UNCHANGED <<chainVars, last, ret, ikVars, calc>>

\* sequence.start()
SeqStart ==
    /\ timeline.state # "Unconstructed"
    /\ LET r == SequenceStart(timeline)
       IN  /\ timeline' = r.timeline
           /\ delivered' = IF timeline.timer THEN delivered ELSE r.emitted
    /\ seq_last' = [op |-> "start", started |-> TRUE, pre |-> SeqPre]
    /\ UNCHANGED <<chainVars, last, ret, ikVars, step, calc>>

\* sequence.stop()
SeqStop ==
    /\ timeline.state # "Unconstructed"
    /\ LET r == SequenceStop(timeline)
       IN  /\ timeline' = r.timeline
           /\ delivered' = delivered \o r.emitted
    /\ seq_last' = [op |-> "stop", started |-> seq_last.started, pre |-> SeqPre]
    /\ UNCHANGED <<chainVars, last, ret, ikVars, step, calc>>

\* a timer event of the running timeline, the clock having reached time t
TimerEvent(t) ==
    /\ timeline.timer
    /\ LET r == TimelineAdvance(timeline, t)
       IN  /\ timeline' = r.timeline
           /\ delivered' = delivered \o r.emitted
    /\ seq_last' = [op |-> "timer", started |-> seq_last.started, pre |-> SeqPre]
    /\ UNCHANGED <<chainVars, last, ret, ikVars, step, calc>>

SeqNext ==
    \/ \E s \in Steps : NewSequence(s)
    \/ SeqStart
    \/ SeqStop
    \/ \E t \in (timeline.currentTime + 1)..(Duration + 1) : TimerEvent(t)

SeqSpec == Init /\ [][SeqNext]_vars

(***************************************************************************)
(* Trajectories (robotics.py; TrajSpec).  Numbers are exact fractions      *)
(* <<numerator, denominator>>: numpy's floating-point rounding is not      *)
(* modelled.                                                               *)
(***************************************************************************)
\* equality of two fractions
RatEq(a, b) == a[1] * b[2] = b[1] * a[2]

RECURSIVE GCD(_, _)
GCD(a, b) == IF b = 0 THEN (IF a < 0 THEN -a ELSE a) ELSE GCD(b, a % b)

\* a fraction in lowest terms
Reduced(n, d) == LET g == GCD(n, d) IN IF g = 0 THEN <<n, d>> ELSE <<n \div g, d \div g>>

Sign(k) == IF k % 2 = 0 THEN 1 ELSE -1

\* the matrix m without row i and column j
Minor(m, i, j) ==
    [r \in 1..(Len(m) - 1) |->
        [c \in 1..(Len(m) - 1) |-> m[IF r < i THEN r ELSE r + 1][IF c < j THEN c ELSE c + 1]]]

RECURSIVE Det(_)
RECURSIVE DetRow(_, _)
\* expansion of the determinant along the first row, from column j on
DetRow(m, j) ==
    IF j > Len(m)
    THEN 0
    ELSE Sign(j + 1) * m[1][j] * Det(Minor(m, 1, j)) + DetRow(m, j + 1)

Det(m) == IF Len(m) = 1 THEN m[1][1] ELSE DetRow(m, 1)

\* np.linalg.inv(m): the adjugate over the determinant
inv(m) ==
    [num |-> [i \in 1..Len(m) |-> [j \in 1..Len(m) |-> Sign(i + j) * Det(Minor(m, j, i))]],
     den |-> Det(m)]

RECURSIVE DotRow(_, _, _)
DotRow(row, b, j) == IF j > Len(row) THEN 0 ELSE row[j] * b[j] + DotRow(row, b, j + 1)

\* np.dot(inverse, b): the entries' numerators, over the inverse's denominator
dot(m_inv, b) ==
    [num |-> [i \in 1..Len(b) |-> DotRow(m_inv.num[i], b, 1)], den |-> m_inv.den]

\* np.linspace(t0, tf, num) with t0 = 0, without its last point
linspaceExclusive(tf, num) == [k \in 1..num |-> <<tf * (k - 1), num>>]

\* np.linspace(t0, tf, num) with t0 = 0: num points, both ends included; a
\* single point is t0
linspace(tf, num) ==
    [k \in 1..num |-> IF num = 1 THEN <<0, 1>> ELSE <<tf * (k - 1), num - 1>>]

\* np.polyval given the coefficients lowest power first
polyvalNotReversed(a, t) ==
    Reduced(a.num[4] * t[2] * t[2] * t[2] + a.num[3] * t[1] * t[2] * t[2]
              + a.num[2] * t[1] * t[1] * t[2] + a.num[1] * t[1] * t[1] * t[1],
            a.den * t[2] * t[2] * t[2])

\* np.polyval(a[::-1], t) at one point t: a[3] t^3 + a[2] t^2 + a[1] t + a[0]
polyval(a, t) ==
    Reduced(a.num[1] * t[2] * t[2] * t[2] + a.num[2] * t[1] * t[2] * t[2]
              + a.num[3] * t[1] * t[1] * t[2] + a.num[4] * t[1] * t[1] * t[1],
            a.den * t[2] * t[2] * t[2])

\* the matrix m of the boundary conditions, with t0 = 0 and tf = step
CubicSystem(tf) ==
    <<<<1, 0, 0, 0>>,
      <<0, 1, 0, 0>>,
      <<1, tf, tf * tf, tf * tf * tf>>,
      <<0, 1, 2 * tf, 3 * tf * tf>>>>

\* coefficients of a cubic that is still moving at both ends
CubicCoefficientsMovingAtEnds(p0, p1, s) == dot(inv(CubicSystem(s)), <<p0, 2, p1, 2>>)

\* the coefficients a of cubic_polynomial_trajectory
CubicCoefficients(p0, p1, s) == dot(inv(CubicSystem(s)), <<p0, 0, p1, 0>>)

\* cubic_polynomial_trajectory(p0, p1, step): the samples pd
cubic_polynomial_trajectory(p0, p1, s) ==
    LET a == CubicCoefficients(p0, p1, s)
        t == linspace(s, s)
    IN  [k \in 1..s |-> polyval(a, t[k])]

\* joint_space_trajectory filling every column from the first joint
joint_space_trajectory_first_joint(start_pose, stop_pose, s) ==
    [k \in 1..s |->
        [j \in 1..Len(start_pose) |->
            cubic_polynomial_trajectory(start_pose[1], stop_pose[1], s)[k]]]

\* joint_space_trajectory(start_pose, stop_pose, step): rows of the grid
joint_space_trajectory(start_pose, stop_pose, s) ==
    [k \in 1..s |->
        [j \in 1..Len(start_pose) |->
            cubic_polynomial_trajectory(start_pose[j], stop_pose[j], s)[k]]]

\* joint values the trajectories run between
TrajValues == -1..MaxOffset

TrajConfigs == [1..Len(Geometry) -> TrajValues]

\* trajectory = joint_space_trajectory(start_pose, stop_pose, s)
JointSpaceTrajectory(start_pose, stop_pose, s) ==
    /\ calc.fn = "none"
    /\ calc' = [fn |-> "joint_space_trajectory", start |-> start_pose, stop |-> stop_pose,
                step |-> s, result |-> joint_space_trajectory(start_pose, stop_pose, s)]
    /\ UNCHANGED <<chainVars, last, ret, ikVars, seqVars>>

\* pd = cubic_polynomial_trajectory(p0, p1, s), with the coefficients it fitted
CubicPolynomialTrajectory(p0, p1, s) ==
    /\ calc.fn = "none"
    /\ calc' = [fn |-> "cubic_polynomial_trajectory", p0 |-> p0, p1 |-> p1, step |-> s,
                a |-> CubicCoefficients(p0, p1, s),
                result |-> cubic_polynomial_trajectory(p0, p1, s)]
    /\ UNCHANGED <<chainVars, last, ret, ikVars, seqVars>>

\* the caller has taken the result
CalcReturn ==
    /\ calc.fn # "none"
    /\ calc' = [fn |-> "none"]
    /\ UNCHANGED <<chainVars, last, ret, ikVars, seqVars>>

TrajNext ==
    \/ \E start_pose \in TrajConfigs, stop_pose \in TrajConfigs, s \in Steps :
          JointSpaceTrajectory(start_pose, stop_pose, s)
    \/ \E p0 \in TrajValues, p1 \in TrajValues, s \in Steps :
          CubicPolynomialTrajectory(p0, p1, s)
    \/ CalcReturn

TrajSpec == Init /\ [][TrajNext]_vars

(***************************************************************************)
(* The algebra of rotations and poses (quaternion.py), on the rotations    *)
(* whose components are whole numbers: the identity and the half turns     *)
(* about the three axes, each with either sign.                            *)
(***************************************************************************)
UnitQuaternions ==
    {q \in [w : -1..1, x : -1..1, y : -1..1, z : -1..1] :
        q.w * q.w + q.x * q.x + q.y * q.y + q.z * q.z = 1}

Translations == {<<0, 0, 0>>, <<1, 0, 0>>, <<0, 2, -1>>}

Poses == {QuaternionVectorPair(q, v) : q \in UnitQuaternions, v \in Translations}

\* a * b, b * a, both groupings of a * b * c, and a composed with the identity
PairCompose(a, b, c) ==
    /\ calc.fn = "none"
    /\ calc' = [fn |-> "QuaternionVectorPair.__mul__", a |-> a, b |-> b, c |-> c,
                ab |-> PairMul(a, b), ba |-> PairMul(b, a),
                ab_c |-> PairMul(PairMul(a, b), c),
                a_bc |-> PairMul(a, PairMul(b, c)),
                a_id |-> PairMul(a, PairIdentity),
                id_a |-> PairMul(PairIdentity, a)]
    /\ UNCHANGED <<chainVars, last, ret, ikVars, seqVars>>

\* q * q.inverse() and q.inverse() * q
QuaternionInverse(q) ==
    /\ calc.fn = "none"
    /\ calc' = [fn |-> "Quaternion.inverse", q |-> q, q_inv |-> inverse(q),
                right |-> QMul(q, inverse(q)), left |-> QMul(inverse(q), q)]
    /\ UNCHANGED <<chainVars, last, ret, ikVars, seqVars>>

\* QuaternionVectorPair.fromMatrix(p.toMatrix()), and the matrix of the result
PairRoundTrip(p) ==
    /\ calc.fn = "none"
    /\ calc' = [fn |-> "QuaternionVectorPair.fromMatrix", p |-> p,
                matrix |-> PairToMatrix(p),
                terms |-> FromMatrixTerms(PairToMatrix(p)),
                result |-> PairFromMatrix(PairToMatrix(p))]
    /\ UNCHANGED <<chainVars, last, ret, ikVars, seqVars>>

\* what can stand on the right of a pose in a * b and a *= b
Operands ==
    {Operand("QuaternionVectorPair", p) : p \in Poses}
        \cup {Operand("Quaternion", q) : q \in UnitQuaternions}
        \cup {Operand("Matrix44", Identity44), Operand("float", 2), Operand("Vector3", <<1, 0, 0>>)}

\* a * other
PairMulCall(a, other) ==
    /\ calc.fn = "none"
    /\ calc' = [fn |-> "a * b", self |-> a, other |-> other,
                outcome |-> PairMulChecked(a, other), after |-> a]
    /\ UNCHANGED <<chainVars, last, ret, ikVars, seqVars>>

\* a *= other
PairIMulCall(a, other) ==
    /\ calc.fn = "none"
    /\ calc' = [fn |-> "a *= b", self |-> a, other |-> other,
                outcome |-> PairIMul(a, other), after |-> PairIMul(a, other).self]
    /\ UNCHANGED <<chainVars, last, ret, ikVars, seqVars>>

AlgNext ==
    \/ \E a \in Poses, b \in Poses, c \in Poses : PairCompose(a, b, c)
    \/ \E a \in Poses, other \in Operands : PairMulCall(a, other)
    \/ \E a \in Poses, other \in Operands : PairIMulCall(a, other)
    \/ \E q \in UnitQuaternions : QuaternionInverse(q)
    \/ \E p \in Poses : PairRoundTrip(p)
    \/ CalcReturn

AlgSpec == Init /\ [][AlgNext]_vars

(***************************************************************************)
(* Node (scene/node.py): a scene node as its name (which object it is),    *)
(* the number of its vertices, the name of its parent in a one-element     *)
(* tuple (None without one) and the list of its children.  The mesh data,  *)
(* colour, render mode and transform are opaque here.                      *)
(***************************************************************************)
\* the most children a node of the trees below is given
MaxChildren == 2

\* Node(): no vertices, no parent, no children
NewNode == [name |-> <<0>>, vertices |-> 0, parent |-> None, children |-> <<>>]

\* Node.copy: a second node with the fields of the first, its list of children
\* included
copy(self) ==
    [name |-> self.name, vertices |-> self.vertices, parent |-> self.parent,
     children |-> self.children]

\* Node.isEmpty
isEmpty(self) == self.children = <<>> /\ self.vertices = 0

\* Node.flatten: the node returned (node) and the node flattened as the call
\* leaves it (self), its childless children having lost their parent.  The
\* bounding boxes the call also sets are not part of the node here.
RECURSIVE flatten(_)
RECURSIVE FlattenLoop(_, _, _)
FlattenLoop(children, i, new_children) ==
    IF i > Len(children)
    THEN [children |-> children, new_children |-> new_children]
    ELSE IF children[i].children # <<>>
         THEN FlattenLoop([children EXCEPT ![i] = flatten(@).self], i + 1,
                          new_children \o flatten(children[i]).node.children)
         ELSE IF ~isEmpty(children[i])
              THEN FlattenLoop([children EXCEPT ![i].parent = None], i + 1,
                               Append(new_children, [children[i] EXCEPT !.parent = None]))
              ELSE FlattenLoop(children, i + 1, new_children)

flatten(self) ==
    LET done == FlattenLoop(self.children, 1, <<>>)
        after == [self EXCEPT !.children = done.children]
    IN  [self |-> after,
         node |-> [NewNode EXCEPT !.children =
                      IF self.vertices # 0
                      THEN Append(done.new_children, copy(after))
                      ELSE done.new_children]]

\* trees of three levels: what a node holds, before its nodes are named
Leaves == [vertices : {0, 3}, children : {<<>>}]

Branches == [vertices : {0, 3}, children : UNION {[1..n -> Leaves] : n \in 0..MaxChildren}]

Roots == [vertices : {0, 3}, children : UNION {[1..n -> Branches] : n \in 0..MaxChildren}]

\* a tree with its nodes named by their place and told their parent
RECURSIVE Placed(_, _, _)
Placed(tree, name, parent) ==
    [name |-> name, vertices |-> tree.vertices, parent |-> parent,
     children |-> [i \in 1..Len(tree.children) |->
                      Placed(tree.children[i], Append(name, i), <<name>>)]]

\* flat = node.flatten()
Flatten(tree) ==
    /\ calc.fn = "none"
    /\ calc' = [fn |-> "Node.flatten", node |-> Placed(tree, <<>>, None),
                after |-> flatten(Placed(tree, <<>>, None)).self,
                result |-> flatten(Placed(tree, <<>>, None)).node]
    /\ UNCHANGED <<chainVars, last, ret, ikVars, seqVars>>

NodeNext ==
    \/ \E tree \in Roots : Flatten(tree)
    \/ CalcReturn

NodeSpec == Init /\ [][NodeNext]_vars

(***************************************************************************)
(* Properties of numeric_inverse_kinematics (IKSpec).                      *)
(***************************************************************************)
\* the cost of a vector q of free-joint values, from the chain as it was at the call
CostFromCall(q) ==
    opt(links0, base, tool, configuration(links0), state, q, Inf, target_pose, tolerance).err

\* the cost at the configuration the chain had when the solver was called
InitialCost == CostFromCall(q0)

\* C1: when the cost at the chain's current configuration is already below
\* tol * tol, the call returns normally with the current offsets of the free
\* joints, after exactly one cost evaluation, without starting the search and
\* without raising.
C1_WithinToleranceReturnsAtOnce ==
    (pc # "idle" /\ InitialCost < tolerance) =>
        (pc = "returned" /\ path = "within" /\ x = q0 /\ nfev = 1)

\* C2: on every return path the result has one entry per joint of the chain,
\* and every locked joint's entry is that joint's offset at call time.
C2_ResultHasOneEntryPerJoint ==
    pc = "returned" =>
        /\ Len(x) = Len(links)
        /\ \A i \in 1..Len(links) : links0[i].locked => x[i] = links0[i].offset

C4_FirstHitEndsSearch ==
    (pc \in {"search", "returned"} /\ nfev > 1) =>
        /\ ~early
        /\ last_err < tolerance =>
              /\ pc = "returned"
              /\ path = "stopped"
              /\ Len(x) = Len(state)
              /\ Gather(x, state) = last_q
              /\ configuration(links) = x

C4_Witness == pc = "returned" /\ path = "stopped" /\ nfev > 2 /\ last_q # q0

C6_LockedJointsHeld ==
    pc # "idle" => \A i \in 1..Len(links) : links0[i].locked => links[i] = links0[i]

C6_Witness ==
    /\ pc = "returned"
    /\ \E i \in 1..Len(links) : links0[i].locked /\ links0[i].set_point # links0[i].offset
    /\ \E j \in 1..Len(links) : links[j].offset # links0[j].offset

\* C29: the solver works on the chain it is given and does not restore it:
\* when it returns, offset and set_point of every unlocked joint are the
\* value that joint had in the last trial the cost function evaluated,
\* whether or not that trial is the configuration returned.
C29_ChainLeftAtLastTrial ==
    pc = "returned" =>
        \A i \in 1..Len(links) :
            state[i] =>
                /\ links[i].offset = last_q[Rank(state, i)]
                /\ links[i].set_point = last_q[Rank(state, i)]

C29_Witness ==
    /\ pc = "returned"
    /\ path = "budget"
    /\ x # last_q
    /\ \E i \in 1..Len(links) :
          /\ state[i]
          /\ links[i].offset # links0[i].offset
          /\ links[i].set_point # links0[i].set_point
          /\ links[i].offset = last_q[Rank(state, i)]
          /\ links[i].offset # x[Rank(state, i)]

(***************************************************************************)
(* Properties of Link and SerialManipulator (Spec, FkSpec).                *)
(***************************************************************************)
\* C7: move on a locked joint with ignore_locks false changes nothing and
\* raises nothing; otherwise offset becomes the given value and set_point
\* becomes it exactly when setpoint is true, staying as it was otherwise.
C7_MoveHonoursLockAndSetpoint ==
    last.op = "move" =>
        LET before == last.pre.links[last.i + 1]
            after == links[last.i + 1]
        IN  /\ ret = NoValue
            /\ IF before.locked /\ ~last.ignore_locks
               THEN after = before
               ELSE /\ after.offset = last.offset
                    /\ after.set_point = IF last.setpoint THEN last.offset
                                                          ELSE before.set_point

C7_Witness ==
    /\ last.op = "move"
    /\ last.pre.links[last.i + 1].locked
    /\ ~last.ignore_locks
    /\ last.offset # last.pre.links[last.i + 1].offset

\* C8: after any sequence of operations reset() leaves every joint with
\* offset = set_point = default_offset, unlocked and with ignore_limits clear,
\* and the chain's base equal to the base it was constructed with.
C8_ResetRestoresDefaults ==
    last.op = "reset" =>
        /\ base = InitBase
        /\ \A i \in 1..Len(links) :
              /\ links[i].offset = links[i].default_offset
              /\ links[i].set_point = links[i].default_offset
              /\ links[i].default_offset = Geometry[i].default_offset
              /\ ~links[i].locked
              /\ ~links[i].ignore_limits

C8_Witness ==
    /\ last.op = "reset"
    /\ last.pre.base # InitBase
    /\ \E i \in 1..Len(links) :
          /\ last.pre.links[i].locked
          /\ last.pre.links[i].ignore_limits
          /\ last.pre.links[i].offset # links[i].default_offset
          /\ last.pre.links[i].set_point # last.pre.links[i].offset

\* what a successfully constructed joint looks like
FreshJoint ==
    /\ ret.exc = "none"
    /\ Len(ret.link) = 1
    /\ ret.link[1].offset = last.default_offset
    /\ ret.link[1].set_point = last.default_offset
    /\ ret.link[1].default_offset = last.default_offset
    /\ ~ret.link[1].locked
    /\ ~ret.link[1].ignore_limits

\* C9 as stated: a zero-length axis raises ValueError and yields no joint;
\* any non-zero axis succeeds with offset = set_point = default_offset,
\* unlocked and with ignore_limits clear, whatever the limits.
C9_NonZeroAxisSucceeds ==
    last.op = "Link" =>
        IF last.axis = <<0, 0, 0>>
        THEN ret.exc = "ValueError" /\ ret.link = <<>>
        ELSE FreshJoint

\* C9 amended: an axis shorter than 0.00001 (the zero vector among them)
\* raises ValueError and yields no joint; an axis at least that long succeeds
\* with offset = set_point = default_offset, unlocked and with ignore_limits
\* clear, whatever the limits.
C9_ShortAxisRejected ==
    last.op = "Link" =>
        IF VDot(last.axis, last.axis) < AxisEps * AxisEps
        THEN ret.exc = "ValueError" /\ ret.link = <<>>
        ELSE FreshJoint

C9_Witness ==
    /\ last.op = "Link"
    /\ last.axis # <<0, 0, 0>>
    /\ ret.exc = "ValueError"

\* the start and end fkine works with
EffStart == IF last.start_index < 0 THEN 0 ELSE last.start_index

EffEnd ==
    IF last.end_index = None \/ last.end_index[1] > Len(links)
    THEN Len(links) ELSE last.end_index[1]

\* the product, left to right, of the matrices of the local poses of joints lo..hi-1
RECURSIVE PoseProduct(_, _, _)
PoseProduct(ls, lo, hi) ==
    IF lo >= hi
    THEN Identity44
    ELSE MatMul(PoseProduct(ls, lo, hi - 1), PairToMatrix(quaterionVectorPair(ls[hi])))

\* C10: fkine returns B @ P @ T, P being the left-to-right composition of the
\* local poses of the visited joints, B the base exactly when include_base is
\* set and the effective start is 0, T the tool exactly when the effective end
\* is the number of joints; B and T are the identity otherwise.
C10_FkineIsBaseJointsTool ==
    last.op = "fkine" =>
        ret.matrix =
            MatMul(MatMul(IF last.include_base /\ EffStart = 0 THEN base ELSE Identity44,
                          PoseProduct(links, EffStart, EffEnd)),
                   IF EffEnd = Len(links) THEN tool ELSE Identity44)

C10_Witness ==
    /\ last.op = "fkine"
    /\ last.include_base
    /\ EffStart = 1
    /\ EffEnd = Len(links)
    /\ links[2].offset # last.pre.links[2].offset
    /\ ret.matrix # Identity44

\* C11: fkine moves exactly the joints of [start, end) that are unlocked (all
\* of them when ignore_locks is set): such a joint ends with offset = q[i], and
\* with set_point = q[i] when setpoint is set, its set_point kept otherwise;
\* every other joint keeps every field; no joint's locked or ignore_limits
\* flag changes, nor do base and tool.
C11_FkineMovesOnlyTheRange ==
    last.op = "fkine" =>
        /\ base = last.pre.base
        /\ tool = InitTool
        /\ \A i \in 1..Len(links) :
              LET before == last.pre.links[i]
                  after == links[i]
                  moves == /\ EffStart <= i - 1
                           /\ i - 1 < EffEnd
                           /\ (~before.locked \/ last.ignore_locks)
              IN  /\ after.locked = before.locked
                  /\ after.ignore_limits = before.ignore_limits
                  /\ IF moves
                     THEN /\ after.offset = last.q[i]
                          /\ after.set_point = IF last.setpoint THEN last.q[i]
                                                                ELSE before.set_point
                     ELSE after = before

C11_Witness ==
    /\ last.op = "fkine"
    /\ ~last.ignore_locks
    /\ ~last.setpoint
    /\ EffStart = 0
    /\ EffEnd = Len(links)
    /\ last.pre.links[1].locked
    /\ last.q[1] # last.pre.links[1].offset
    /\ ~last.pre.links[2].locked
    /\ links[2].offset # last.pre.links[2].offset
    /\ links[2].set_point # links[2].offset

\* C12: reading pose, configuration or set_points changes no field of any
\* joint and neither base nor tool; the read returns the value composed from
\* the chain as it is, and a second read of pose right after the first returns
\* the same matrix.
C12_ReadsMutateNothing ==
    last.op \in {"pose", "configuration", "set_points.get"} =>
        /\ links = last.pre.links
        /\ base = last.pre.base
        /\ tool = InitTool
        /\ last.op = "pose" =>
              /\ ret.matrix = pose(last.pre.links, last.pre.base, InitTool)
              /\ last.again => ret.matrix = last.prev
        /\ last.op = "configuration" =>
              ret.list = [i \in 1..Len(links) |-> last.pre.links[i].offset]
        /\ last.op = "set_points.get" =>
              ret.list = [i \in 1..Len(links) |-> last.pre.links[i].set_point]

C12_Witness ==
    /\ last.op = "pose"
    /\ last.again
    /\ base = OtherBase
    /\ links[1].offset # links[1].default_offset
    /\ links[2].offset # links[2].default_offset
    /\ links[2].locked

(***************************************************************************)
(* Properties of Sequence (SeqSpec).                                       *)
(***************************************************************************)
\* the frame callback has been given the trajectory's last row since the start
FinalRowDelivered(d) == \E k \in 1..Len(d) : d[k] = step - 1

\* when a started sequence is not running, the row delivered last is the final one
StoppedOnFinalRow ==
    (seq_last.started /\ ~isRunning) =>
        (delivered # <<>> /\ delivered[Len(delivered)] = step - 1)

\* C13 as stated: stop() on a running sequence that has not delivered its
\* final frame yet hands the trajectory's last row to the frame callback and
\* leaves the sequence not running; so a started sequence that is not running
\* delivered the final row last.
C13_StopDeliversFinalRow ==
    /\ (seq_last.op = "stop" /\ seq_last.pre.timeline.state = "Running"
          /\ ~FinalRowDelivered(seq_last.pre.delivered)) =>
            (delivered = seq_last.pre.delivered \o <<step - 1>> /\ ~isRunning)
    /\ StoppedOnFinalRow

\* C13 amended: stop() on a running sequence whose timeline is not at its
\* final frame hands the trajectory's last row to the frame callback, once,
\* before it returns; after any stop() the sequence is not running and its
\* timer is dead, so no frame callback follows; a started sequence of two or
\* more steps that is not running delivered the final row last.  (A sequence
\* of one step is always at its final frame and never delivers a row.)
C13_StopSnapsToFinalFrame ==
    /\ (seq_last.op = "stop" /\ seq_last.pre.timeline.state = "Running"
          /\ currentFrame(seq_last.pre.timeline) # step - 1) =>
            delivered = seq_last.pre.delivered \o <<step - 1>>
    /\ seq_last.op = "stop" => (~isRunning /\ ~timeline.timer)
    /\ ~isRunning => ~timeline.timer
    /\ step >= 2 => StoppedOnFinalRow
    /\ step = 1 => delivered = <<>>

C13_Witness ==
    /\ seq_last.op = "stop"
    /\ seq_last.pre.timeline.state = "Running"
    /\ step = MaxStep
    /\ seq_last.pre.delivered = <<0, 1>>
    /\ delivered = <<0, 1, step - 1>>

\* C14: start() on a sequence that is not running makes it run from time 0;
\* with two or more steps row 0 is delivered at once; the rows delivered
\* since a start begin with row 0, never go back, and lie in 0..step-1.
C14_StartPlaysFromRowZero ==
    /\ (seq_last.op = "start" /\ seq_last.pre.timeline.state = "NotRunning") =>
          /\ isRunning
          /\ timeline.currentTime = 0
          /\ step >= 2 => delivered = <<0>>
    /\ seq_last.started =>
          /\ delivered # <<>> => delivered[1] = 0
          /\ \A k \in 1..Len(delivered) : delivered[k] \in 0..(step - 1)
          /\ \A k \in 1..(Len(delivered) - 1) : delivered[k] <= delivered[k + 1]

C14_Witness ==
    /\ seq_last.op = "start"
    /\ seq_last.pre.timeline.state = "NotRunning"
    /\ seq_last.started
    /\ seq_last.pre.delivered # <<>>
    /\ step >= 2
    /\ delivered = <<0>>

(***************************************************************************)
(* Properties of the trajectories (TrajSpec).                              *)
(***************************************************************************)
\* row k (from 1) of a grid equals the configuration c
RowIs(grid, k, c) == \A j \in 1..Len(c) : RatEq(grid[k][j], <<c[j], 1>>)

\* C15 as stated: for every step >= 1 the grid has step rows and len(start)
\* columns, its row 0 equals start and its last row equals stop.
C15_GridRunsFromStartToStop ==
    calc.fn = "joint_space_trajectory" =>
        /\ Len(calc.result) = calc.step
        /\ \A k \in 1..calc.step : Len(calc.result[k]) = Len(calc.start)
        /\ RowIs(calc.result, 1, calc.start)
        /\ RowIs(calc.result, calc.step, calc.stop)

\* C15 amended: the grid has step rows and len(start) columns and its row 0
\* equals start; for step >= 2 its last row equals stop; for step = 1 its only
\* row is start, whatever stop is.
C15_GridEndsAtStopFromTwoSteps ==
    calc.fn = "joint_space_trajectory" =>
        /\ Len(calc.result) = calc.step
        /\ \A k \in 1..calc.step : Len(calc.result[k]) = Len(calc.start)
        /\ RowIs(calc.result, 1, calc.start)
        /\ calc.step >= 2 => RowIs(calc.result, calc.step, calc.stop)

C15_Witness ==
    /\ calc.fn = "joint_space_trajectory"
    /\ calc.step = 1
    /\ calc.start # calc.stop
    /\ RowIs(calc.result, 1, calc.start)

\* the fitted cubic meets its four boundary conditions
BoundaryConditionsMet ==
    LET a == calc.a
        tf == calc.step
    IN  /\ a.den # 0
        /\ a.num[1] = calc.p0 * a.den
        /\ a.num[2] = 0
        /\ a.num[1] + a.num[2] * tf + a.num[3] * tf * tf + a.num[4] * tf * tf * tf
              = calc.p1 * a.den
        /\ a.num[2] + 2 * a.num[3] * tf + 3 * a.num[4] * tf * tf = 0

\* p0 + (p1 - p0) * (3 s^2 - 2 s^3) at s = k / n
SmoothStep(p0, p1, k, n) ==
    <<p0 * n * n * n + (p1 - p0) * (3 * k * k * n - 2 * k * k * k), n * n * n>>

\* C16 as stated: for every step >= 1 the cubic meets p(0) = p0, p(step) = p1,
\* p'(0) = 0, p'(step) = 0, and its samples are p0 + (p1 - p0)(3 s^2 - 2 s^3),
\* the first one taken at s = 0 and the last one at s = 1.
C16_SamplesRunFromZeroToOne ==
    calc.fn = "cubic_polynomial_trajectory" =>
        /\ BoundaryConditionsMet
        /\ RatEq(calc.result[1], SmoothStep(calc.p0, calc.p1, 0, 1))
        /\ RatEq(calc.result[calc.step], SmoothStep(calc.p0, calc.p1, 1, 1))

\* C16 amended: for every step >= 1 the cubic meets the four boundary
\* conditions and its first sample is p0; for step >= 2 sample k is
\* p0 + (p1 - p0)(3 s^2 - 2 s^3) at s = k / (step - 1), so the last one is
\* taken at s = 1; for step = 1 the only sample is taken at s = 0.
C16_CubicMeetsBoundaryConditions ==
    calc.fn = "cubic_polynomial_trajectory" =>
        /\ BoundaryConditionsMet
        /\ Len(calc.result) = calc.step
        /\ RatEq(calc.result[1], <<calc.p0, 1>>)
        /\ calc.step >= 2 =>
              \A k \in 0..(calc.step - 1) :
                  RatEq(calc.result[k + 1], SmoothStep(calc.p0, calc.p1, k, calc.step - 1))

C16_Witness ==
    /\ calc.fn = "cubic_polynomial_trajectory"
    /\ calc.step = 1
    /\ calc.p0 # calc.p1
    /\ BoundaryConditionsMet
    /\ ~RatEq(calc.result[1], <<calc.p1, 1>>)

\* C17: every joint follows the same profile: row i of the grid is
\* start + (stop - start) * f(i) in every column, f(i) being the sample i of
\* the cubic from 0 to 1; a joint whose start equals its stop stays constant.
C17_JointsShareOneProfile ==
    calc.fn = "joint_space_trajectory" =>
        \E f \in {cubic_polynomial_trajectory(0, 1, calc.step)} :
            \A k \in 1..calc.step : \A j \in 1..Len(calc.start) :
                /\ RatEq(calc.result[k][j],
                         <<calc.start[j] * f[k][2] + (calc.stop[j] - calc.start[j]) * f[k][1],
                           f[k][2]>>)
                /\ calc.start[j] = calc.stop[j] =>
                      RatEq(calc.result[k][j], <<calc.start[j], 1>>)

C17_Witness ==
    /\ calc.fn = "joint_space_trajectory"
    /\ calc.step >= 3
    /\ calc.stop[1] - calc.start[1] = 2
    /\ calc.stop[2] - calc.start[2] = -1
    /\ ~RatEq(calc.result[2][1], <<calc.start[1], 1>>)
    /\ ~RatEq(calc.result[2][2], <<calc.start[2], 1>>)

\* order of two fractions
RatLeq(a, b) ==
    IF a[2] * b[2] > 0 THEN a[1] * b[2] <= b[1] * a[2] ELSE a[1] * b[2] >= b[1] * a[2]

\* the fraction v lies between the whole numbers p and r, ends included
Between(p, v, r) ==
    \/ RatLeq(<<p, 1>>, v) /\ RatLeq(v, <<r, 1>>)
    \/ RatLeq(<<r, 1>>, v) /\ RatLeq(v, <<p, 1>>)

C18_CompositionIsAssociative ==
    calc.fn = "QuaternionVectorPair.__mul__" =>
        /\ calc.ab_c = calc.a_bc
        /\ calc.a_id = calc.a
        /\ calc.id_a = calc.a
        /\ (calc.a.quaternion = QIdentity /\ calc.a.vector = <<1, 0, 0>>
              /\ calc.b = QuaternionVectorPair(Quaternion(0, 0, 0, 1), <<0, 0, 0>>))
             => calc.ab # calc.ba

C18_Witness ==
    /\ calc.fn = "QuaternionVectorPair.__mul__"
    /\ calc.ab # calc.ba
    /\ calc.c # PairIdentity
    /\ calc.b.vector # <<0, 0, 0>>
    /\ calc.ab_c = calc.a_bc

\* C19: for a unit quaternion q, q * q.inverse() and q.inverse() * q are both
\* the identity rotation, and q.inverse() is the conjugate of q.
C19_InverseCancels ==
    calc.fn = "Quaternion.inverse" =>
        /\ calc.right = QIdentity
        /\ calc.left = QIdentity
        /\ calc.q_inv = conjugate(calc.q)

C19_Witness ==
    /\ calc.fn = "Quaternion.inverse"
    /\ calc.q = Quaternion(0, 0, -1, 0)
    /\ calc.q_inv # calc.q
    /\ calc.right = QIdentity

\* the quaternion of opposite sign, which stands for the same rotation
QNeg(q) == Quaternion(-q.w, -q.x, -q.y, -q.z)

\* C20: the 4x4 matrix of a pose converts back to the same translation and
\* to the same rotation up to the sign of the quaternion, the rotation matrix
\* converts to a quaternion whose matrix it is, and in the branch taken the
\* value t whose square root is taken is strictly positive.
C20_MatrixRoundTrip ==
    calc.fn = "QuaternionVectorPair.fromMatrix" =>
        /\ calc.terms.t > 0
        /\ calc.result.vector = calc.p.vector
        /\ calc.result.quaternion \in {calc.p.quaternion, QNeg(calc.p.quaternion)}
        /\ PairToMatrix(calc.result) = calc.matrix

\* every branch of Quaternion.fromMatrix is taken by some rotation
FromMatrixBranchTaken(n) ==
    \E q \in UnitQuaternions :
        LET r == QToMatrix(q)
        IN  FromMatrixTerms(<<r[1] \o <<0>>, r[2] \o <<0>>, r[3] \o <<0>>, <<0, 0, 0, 1>>>>).branch = n

C20_Witness ==
    /\ calc.fn = "QuaternionVectorPair.fromMatrix"
    /\ calc.terms.branch = 1
    /\ calc.terms.t > 0
    /\ calc.p.vector # <<0, 0, 0>>
    /\ calc.result.quaternion = QNeg(calc.p.quaternion)
    /\ PairToMatrix(calc.result) = calc.matrix
    /\ \A n \in 1..4 : FromMatrixBranchTaken(n)

\* C21: composing a pose with an operand that is not a QuaternionVectorPair
\* raises an error, for a * b and for a *= b, and the failing a *= b leaves
\* the quaternion and the vector of a as they were; with a pose on the right
\* no error is raised.
C21_NonPoseOperandRaises ==
    calc.fn \in {"a * b", "a *= b"} =>
        /\ calc.other.type # "QuaternionVectorPair" =>
              /\ calc.outcome.raised = "ValueError"
              /\ calc.after = calc.self
        /\ calc.other.type = "QuaternionVectorPair" =>
              /\ calc.outcome.raised = "none"
              /\ calc.outcome.value = PairMul(calc.self, calc.other.value)

C21_Witness ==
    /\ calc.fn = "a *= b"
    /\ calc.other.type = "Quaternion"
    /\ calc.self.vector # <<0, 0, 0>>
    /\ calc.outcome.raised = "ValueError"
    /\ calc.after = calc.self

\* C24: resetOffsets() sets offset and set_point of every joint, locked ones
\* too, to the joint's default_offset, and leaves every locked and
\* ignore_limits flag, the base and the tool as they were.
C24_ResetOffsetsKeepsFlags ==
    last.op = "resetOffsets" =>
        /\ base = last.pre.base
        /\ tool = InitTool
        /\ ret = NoValue
        /\ \A i \in 1..Len(links) :
              /\ links[i].offset = last.pre.links[i].default_offset
              /\ links[i].set_point = last.pre.links[i].default_offset
              /\ links[i].default_offset = last.pre.links[i].default_offset
              /\ links[i].locked = last.pre.links[i].locked
              /\ links[i].ignore_limits = last.pre.links[i].ignore_limits

C24_Witness ==
    /\ last.op = "resetOffsets"
    /\ base # InitBase
    /\ \E i \in 1..Len(links) :
          /\ links[i].locked
          /\ links[i].ignore_limits
          /\ last.pre.links[i].offset # links[i].default_offset
          /\ links[i].offset = links[i].default_offset

\* the local pose a joint has at its offset
PoseAtOffset(l) ==
    IF l.type = Revolute
    THEN QuaternionVectorPair(fromAxisAngle(l.joint_axis, l.offset),
                              rotate(fromAxisAngle(l.joint_axis, l.offset), l.home))
    ELSE QuaternionVectorPair(QIdentity, VAdd(l.home, VScale(l.joint_axis, l.offset)))

\* C25: in every reachable state the stored local pose of each joint is the
\* one its offset determines: for a revolute joint the rotation by offset
\* about the axis and the home point rotated by it, for a prismatic joint the
\* identity rotation and home + axis * offset.
C25_LocalPoseFollowsOffset ==
    \A i \in 1..Len(links) : quaterionVectorPair(links[i]) = PoseAtOffset(links[i])

C25_Witness ==
    /\ last.op = "fkine"
    /\ links[1].type = Revolute
    /\ links[1].offset # last.pre.links[1].offset
    /\ links[1].quaternion # QIdentity
    /\ links[1].vector # links[1].home
    /\ links[2].type = Prismatic
    /\ links[2].offset # last.pre.links[2].offset
    /\ links[2].vector = links[2].home
    /\ C25_LocalPoseFollowsOffset

(***************************************************************************)
(* Properties of forward kinematics in two parts (FkSplitSpec).            *)
(***************************************************************************)
\* C26: right after fkine(q) over the whole chain with the base returns M,
\* the pose property is M, whatever joints are locked and whatever
\* ignore_locks and setpoint are; and fkine(q, 0, k) @ fkine(q, k, n,
\* include_base) is the matrix fkine(q) returns on the same lock state, and
\* leaves the chain with that pose.
C26_FkineAgreesWithPose ==
    /\ last.op = "fkine" => ret.matrix = pose(links, base, tool)
    /\ last.op = "fkine, fkine" =>
          /\ MatMul(ret.first, ret.second) = ret.whole
          /\ ret.whole = pose(links, base, tool)

C26_Witness ==
    /\ last.op = "fkine, fkine"
    /\ ~last.include_base
    /\ ~last.ignore_locks
    /\ last.pre.links[1].locked
    /\ last.q[1] # last.pre.links[1].offset
    /\ links[2].offset # last.pre.links[2].offset
    /\ ret.first # Identity44
    /\ ret.second # Identity44
    /\ MatMul(ret.first, ret.second) = pose(links, base, tool)

(***************************************************************************)
(* Properties of assigning set_points (SetPointSpec).                      *)
(***************************************************************************)
\* C27: assigning set_points = q changes set_point values only: joint i gets
\* q[i] for every i below min(len(q), number of joints), locked or not;
\* offsets, local poses, flags and the set_point of a joint beyond len(q)
\* stay; the configuration read afterwards has one entry per joint.
C27_SetPointsWritesOnlySetPoints ==
    /\ last.op = "set_points" =>
          /\ base = last.pre.base
          /\ tool = InitTool
          /\ Len(links) = Len(last.pre.links)
          /\ \A i \in 1..Len(links) :
                links[i] = [last.pre.links[i] EXCEPT
                               !.set_point = IF i <= Len(last.q) THEN last.q[i] ELSE @]
          /\ configuration(links) = configuration(last.pre.links)
    /\ last.op = "configuration" => Len(ret.list) = Len(links)

C27_Witness ==
    /\ last.op = "set_points"
    /\ Len(last.q) = 1
    /\ last.pre.links[1].locked
    /\ last.q[1] # last.pre.links[1].set_point
    /\ links[1].set_point = last.q[1]
    /\ links[2].set_point # links[2].offset
    /\ set_points(links) # configuration(links)

(***************************************************************************)
(* Properties of fkine with indices beyond the chain (FkClampSpec).        *)
(***************************************************************************)
\* an index clamped into [0, number of joints]
Clamped(index) ==
    IF index < 0 THEN 0 ELSE IF index > Len(links) THEN Len(links) ELSE index

ClampedStart == Clamped(last.start_index)

ClampedEnd == IF last.end_index = None THEN Len(links) ELSE Clamped(last.end_index[1])

\* C22: fkine clamps start_index and end_index into [0, number of joints]:
\* the joints moved are those of [clamped start, clamped end), the base is
\* taken when include_base is set and the clamped start is 0, the tool when
\* the clamped end is the number of joints.
C22_FkineClampsItsRange ==
    last.op = "fkine" =>
        /\ \A i \in 1..Len(links) :
              (ClampedStart <= i - 1 /\ i - 1 < ClampedEnd
                  /\ (~last.pre.links[i].locked \/ last.ignore_locks))
                 => links[i].offset = last.q[i]
        /\ \A i \in 1..Len(links) :
              ~(ClampedStart <= i - 1 /\ i - 1 < ClampedEnd) => links[i] = last.pre.links[i]
        /\ ret.matrix =
              MatMul(MatMul(IF last.include_base /\ ClampedStart = 0 THEN base ELSE Identity44,
                            PoseProduct(links, ClampedStart, ClampedEnd)),
                     IF ClampedEnd = Len(links) THEN tool ELSE Identity44)

(***************************************************************************)
(* Properties of moves beyond the joint limits (LimitSpec).                *)
(***************************************************************************)
\* C23: move never enforces the limits: on an unlocked joint, or with
\* ignore_locks set, any offset, below lower_limit or above upper_limit, with
\* ignore_limits set or clear, is stored as given and nothing is raised; the
\* limits and the ignore_limits flag stay as they were.
C23_MoveIgnoresLimits ==
    last.op = "move" =>
        LET before == last.pre.links[last.i + 1]
            after == links[last.i + 1]
        IN  /\ ret = NoValue
            /\ after.upper_limit = before.upper_limit
            /\ after.lower_limit = before.lower_limit
            /\ after.ignore_limits = before.ignore_limits
            /\ (~before.locked \/ last.ignore_locks) => after.offset = last.offset

C23_Witness ==
    /\ last.op = "move"
    /\ ~last.pre.links[last.i + 1].ignore_limits
    /\ ~last.pre.links[last.i + 1].locked
    /\ links[last.i + 1].upper_limit # None
    /\ last.offset > links[last.i + 1].upper_limit[1]
    /\ links[last.i + 1].offset = last.offset

(***************************************************************************)
(* Properties of Node.flatten (NodeSpec).                                  *)
(***************************************************************************)
\* the names of the nodes of a tree that carry vertices
RECURSIVE WithVertices(_)
WithVertices(node) ==
    (IF node.vertices # 0 THEN {node.name} ELSE {})
        \cup UNION {WithVertices(node.children[i]) : i \in 1..Len(node.children)}

\* C30: flatten() returns a node whose children form a flat list: no child of
\* the result has children of its own, every node of the tree that carries
\* vertices is among the result's children exactly once, and no child of the
\* result is empty.
C30_FlattenIsFlat ==
    calc.fn = "Node.flatten" =>
        /\ \A i \in 1..Len(calc.result.children) :
              /\ calc.result.children[i].children = <<>>
              /\ ~isEmpty(calc.result.children[i])
        /\ \A name \in WithVertices(calc.node) :
              Cardinality({i \in 1..Len(calc.result.children) :
                              calc.result.children[i].name = name}) = 1

=============================================================================
